---- MODULE Spec2Model ----
(***************************************************************************)
(* Model of the quiz scoring of QuizResultsPage (calculateResults effect). *)
(* The effect reads quizInfo / userAnswers from the navigation state,      *)
(* fetches the questions of the quiz, scores them one by one in a forEach  *)
(* loop and publishes the result with setResults.                          *)
(*                                                                         *)
(* Further parts, each with a specification of its own: two executions of  *)
(* the effect side by side (SpecRuns), the question handlers of the        *)
(* backend's ApiQuestionController (SpecAuthoring) and the page on which   *)
(* the participant answers the quiz, TakeQuizPage (SpecTakeQuiz).          *)
(* The backend handler that stores a participant's answers,                *)
(* submitQuestionnaire, has the specification SpecSubmit.                  *)
(***************************************************************************)
EXTENDS Integers, Sequences, FiniteSets

\* ---------------------------------------------------------------- bounds
\* questions in a fetched quiz
MaxQuestions == 2
\* answers of the whole quiz (answer ids are database keys, unique per quiz)
MaxAnswers == 3
\* answer ids a submission holds in total (a scalar entry counts for one)
MaxSel == 3

\* ------------------------------------------------------------ JS values
\* Optional values (null / undefined object references): <<>> or <<x>>.
Null == <<>>
Some(x) == <<x>>

\* The value `undefined` inside an array of answer ids.  Answer ids are
\* positive database keys, so the value never collides with an id.
undefined == 0 - 1

\* Database ids of the answers of a quiz: consecutive keys around a change
\* of decimal length, so that the order of the ids as strings differs from
\* their order as numbers.
AnswerIds == 9..(8 + MaxAnswers)

\* Keys of the submission object (question ids).
QuestionIds == 1..MaxQuestions

\* One entry userAnswers[questionId]: undefined, a number or an array.
UndefinedEntry == [kind |-> "undefined", num |-> 0, arr |-> <<>>]
NumberEntry(n) == [kind |-> "number", num |-> n, arr |-> <<>>]
ArrayEntry(s) == [kind |-> "array", num |-> 0, arr |-> s]

\* ----------------------------------------------------------- sequences
RECURSIVE SeqSum(_)
SeqSum(s) == IF s = <<>> THEN 0 ELSE Head(s) + SeqSum(Tail(s))

SeqsUpTo(S, n) == UNION {[1..k -> S] : k \in 0..n}

Range(s) == {s[i] : i \in 1..Len(s)}

\* Array.prototype.map(a => a.id)
MapId(s) == [i \in 1..Len(s) |-> s[i].id]

\* Array.prototype.includes
Includes(s, x) == \E i \in 1..Len(s) : s[i] = x

\* Number.prototype.toString: the decimal digits of a non-negative integer.
RECURSIVE NumberToString(_)
NumberToString(n) == IF n < 10 THEN <<n>> ELSE Append(NumberToString(n \div 10), n % 10)

\* Comparison of two strings by code units (digits compare as numbers).
RECURSIVE StringLess(_, _)
StringLess(a, b) ==
    IF b = <<>> THEN FALSE
    ELSE IF a = <<>> THEN TRUE
    ELSE IF Head(a) # Head(b) THEN Head(a) < Head(b)
    ELSE StringLess(Tail(a), Tail(b))

\* Insertion of x into a sequence sorted by the default comparator.
RECURSIVE SortInsert(_, _)
SortInsert(s, x) ==
    IF s = <<>> THEN <<x>>
    ELSE IF StringLess(NumberToString(x), NumberToString(Head(s))) THEN <<x>> \o s
    ELSE <<Head(s)>> \o SortInsert(Tail(s), x)

\* Array.prototype.sort() without comparator: elements are ordered by their
\* string conversions (10 sorts before 9).
RECURSIVE Sort(_)
Sort(s) == IF s = <<>> THEN <<>> ELSE SortInsert(Sort(SubSeq(s, 1, Len(s) - 1)), s[Len(s)])

\* --------------------------------------------------------------- inputs
\* The questions of a quiz as getQuestionnaire serves them: question i has
\* id i and sizes[i] answers; the answers of the quiz take consecutive ids,
\* each with its `correct` flag.
MakeQuestions(sizes, flags) ==
    [i \in 1..Len(sizes) |->
        [id |-> i,
         reponses |-> [j \in 1..sizes[i] |->
            [id |-> 8 + SeqSum(SubSeq(sizes, 1, i - 1)) + j,
             correct |-> flags[8 + SeqSum(SubSeq(sizes, 1, i - 1)) + j]]]]]

QuestionSeqs ==
    UNION {{MakeQuestions(sizes, flags) : flags \in [9..(8 + SeqSum(sizes)) -> BOOLEAN]} :
           sizes \in {s \in SeqsUpTo(0..MaxAnswers, MaxQuestions) : SeqSum(s) <= MaxAnswers}}

\* The entries a submission can hold for one question id.
Entries ==
    {UndefinedEntry} \cup {NumberEntry(n) : n \in AnswerIds}
        \cup {ArrayEntry(s) : s \in SeqsUpTo(AnswerIds, MaxSel)}

EntryWeight(e) == IF e.kind = "number" THEN 1 ELSE Len(e.arr)

RECURSIVE TotalWeight(_, _)
TotalWeight(ua, n) == IF n = 0 THEN 0 ELSE EntryWeight(ua[n]) + TotalWeight(ua, n - 1)

\* The userAnswers objects of the navigation state (UserAnswers =
\* Record<number, number | number[]>); an absent key reads as undefined.
Submissions == {ua \in [QuestionIds -> Entries] : TotalWeight(ua, MaxQuestions) <= MaxSel}

\* ---------------------------------------------------------------- state
VARIABLES
    quizInfo,           \* location.state.quizInfo: Null or Some(id)
    userAnswers,        \* location.state.userAnswers: Null or Some(object)
    pc,                 \* position of the calculateResults effect
    questions,          \* the fetched questions
    index,              \* forEach position (1-based)
    correctAnswers,     \* running count of correct questions
    userAnswersDetails, \* the detail sequence being built
    results,            \* React state `results`: Null or Some(CalculatedResults)
    isCalculating,      \* React state `isCalculating`
    navigatedTo,        \* last navigate() target, Null when none
    error               \* what the catch block caught, Null when nothing

\* State of the other parts of the application the claims speak of.
VARIABLES
    runs,               \* executions of the calculateResults effect side by side
    runCorrectAnswers,  \* their `correctAnswers` bindings
    runUserAnswersDetails, \* their `userAnswersDetails` bindings
    takeQuiz,           \* TakeQuizPage: its React state and navigation
    authoring,          \* ApiQuestionController: stored question and last response
    quizSubmission      \* submitQuestionnaire: stored attempts and last response

\* Value of the variables of a part that a specification does not model.
Unused == "unused"

\* What the calculateResults effect of one page instance does not touch.
otherVars == <<runs, runCorrectAnswers, runUserAnswersDetails, takeQuiz, authoring,
              quizSubmission>>

vars == <<quizInfo, userAnswers, pc, questions, index, correctAnswers,
          userAnswersDetails, results, isCalculating, navigatedTo, error,
          runs, runCorrectAnswers, runUserAnswersDetails, takeQuiz, authoring,
          quizSubmission>>

\* -------------------------------------------------- scoring one question
\* Faulty lookup: a question without entry of its own reads the entry of the
\* next key of the object.
UserAnswerIds_NextKey(ua, question) ==
    IF question.id \in DOMAIN ua /\ ua[question.id].kind # "undefined" THEN ua[question.id]
    ELSE IF (question.id + 1) \in DOMAIN ua THEN ua[question.id + 1]
    ELSE UndefinedEntry

\* userAnswers[question.id]: the entry of the submission, undefined when the
\* object has no such key.
UserAnswerIds(ua, question) ==
    IF question.id \in DOMAIN ua THEN ua[question.id] ELSE UndefinedEntry

\* question.reponses.filter(a => a.correct); filter is SelectSeq, which keeps
\* the elements satisfying the test, in order.
IsCorrectAnswer(a) == a.correct

CorrectAnswersList(question) == SelectSeq(question.reponses, IsCorrectAnswer)

\* correctAnswersList.length > 1
IsMultipleChoice(correctAnswersList) == Len(correctAnswersList) > 1

\* Faulty normalisation: the entry is used as it is, scalar or undefined too.
UserAnswerIdArray_NoWrap(userAnswerIds) == userAnswerIds

\* Array.isArray(userAnswerIds) ? userAnswerIds : [userAnswerIds]
UserAnswerIdArray(userAnswerIds) ==
    IF userAnswerIds.kind = "array" THEN userAnswerIds
    ELSE IF userAnswerIds.kind = "number" THEN ArrayEntry(<<userAnswerIds.num>>)
    ELSE ArrayEntry(<<undefined>>)

\* Faulty resolution: one answer per submitted id (ids.map over the entry), so
\* that a repeated id gives a repeated answer.
UserAnswersList_PerSubmittedId(question, userAnswerIdArray) ==
    LET Own(id) == \E j \in 1..Len(question.reponses) : question.reponses[j].id = id
        ids == SelectSeq(userAnswerIdArray.arr, Own)
    IN  [k \in 1..Len(ids) |-> CHOOSE a \in Range(question.reponses) : a.id = ids[k]]

\* question.reponses.filter(a => userAnswerIdArray.includes(a.id)): the
\* answers of the question that were submitted, in the question's order.
UserAnswersList(question, userAnswerIdArray) ==
    LET Submitted(a) == Includes(userAnswerIdArray.arr, a.id)
    IN  SelectSeq(question.reponses, Submitted)

\* The filter callback calls .includes on userAnswerIdArray: a TypeError when
\* that value is not an array and the callback runs at all.
IncludesThrows(question, userAnswerIdArray) ==
    userAnswerIdArray.kind # "array" /\ Len(question.reponses) > 0

\* Faulty guard: unanswered questions are scored too.
IsScored_IgnoresSubmitted(userAnswersList, correctAnswersList) ==
    Len(correctAnswersList) > 0

\* Faulty guard: answered questions without correct answer are scored too.
IsScored_IgnoresCorrect(userAnswersList, correctAnswersList) ==
    Len(userAnswersList) > 0

\* The guard of the scoring block: the question is scored and a detail is
\* pushed only under this condition.
IsScored(userAnswersList, correctAnswersList) ==
    Len(userAnswersList) > 0 /\ Len(correctAnswersList) > 0

\* Faulty multiple choice: the selection of an incorrect answer is not checked.
MultipleChoiceIsCorrect_NoIncorrectCheck(userAnswersList, correctAnswersList) ==
    LET selectedCorrectIds == Sort(MapId(SelectSeq(userAnswersList, IsCorrectAnswer)))
        allCorrectIds == Sort(MapId(correctAnswersList))
    IN  /\ Len(selectedCorrectIds) = Len(allCorrectIds)
        /\ \A i \in 1..Len(selectedCorrectIds) : selectedCorrectIds[i] = allCorrectIds[i]

\* Multiple choice: only correct answers selected, and the selected correct
\* ids, sorted, equal the correct ids, sorted, element for element.
MultipleChoiceIsCorrect(userAnswersList, correctAnswersList) ==
    LET selectedCorrectIds == Sort(MapId(SelectSeq(userAnswersList, IsCorrectAnswer)))
        allCorrectIds == Sort(MapId(correctAnswersList))
        hasOnlyCorrectAnswers == \A i \in 1..Len(userAnswersList) : IsCorrectAnswer(userAnswersList[i])
    IN  /\ hasOnlyCorrectAnswers
        /\ Len(selectedCorrectIds) = Len(allCorrectIds)
        /\ \A i \in 1..Len(selectedCorrectIds) : selectedCorrectIds[i] = allCorrectIds[i]

\* Faulty single choice: userAnswersList[1]?.correct || false
SingleChoiceIsCorrect_SecondAnswer(userAnswersList) ==
    IF Len(userAnswersList) < 2 THEN FALSE ELSE userAnswersList[2].correct

\* Single choice: userAnswersList[0]?.correct || false
SingleChoiceIsCorrect(userAnswersList) ==
    IF Len(userAnswersList) = 0 THEN FALSE ELSE userAnswersList[1].correct

\* One iteration of questions.forEach: whether it threw, whether a detail is
\* pushed, and the detail.
ScoreQuestion(question, ua) ==
    LET userAnswerIds == UserAnswerIds(ua, question)
        correctAnswersList == CorrectAnswersList(question)
        isMultipleChoice == IsMultipleChoice(correctAnswersList)
        userAnswerIdArray == UserAnswerIdArray(userAnswerIds)
        threw == IncludesThrows(question, userAnswerIdArray)
        userAnswersList == IF threw THEN <<>> ELSE UserAnswersList(question, userAnswerIdArray)
        isCorrect == IF isMultipleChoice
                     THEN MultipleChoiceIsCorrect(userAnswersList, correctAnswersList)
                     ELSE SingleChoiceIsCorrect(userAnswersList)
    IN  [threw |-> threw,
         pushed |-> ~threw /\ IsScored(userAnswersList, correctAnswersList),
         detail |-> [questionId |-> question.id,
                     userAnswers |-> userAnswersList,
                     correctAnswers |-> correctAnswersList,
                     isCorrect |-> isCorrect,
                     isMultipleChoice |-> isMultipleChoice]]

\* Faulty comparison: the question's own answers are sorted in place (by the
\* default comparator, as strings) before their ids are compared.
ReponsesAfterSort_InPlace(question) ==
    LET ids == Sort(MapId(question.reponses))
    IN  [k \in 1..Len(ids) |-> CHOOSE a \in Range(question.reponses) : a.id = ids[k]]

\* What one iteration leaves in question.reponses.  filter and map return new
\* arrays, and the two sort() calls of the multiple-choice branch sort, in
\* place, the arrays returned by map: the question's own array is not written.
ReponsesAfterSort(question) == question.reponses

\* Faulty count: every scored question is counted.
CountCorrect_EveryDetail(count, r) ==
    IF r.pushed THEN count + 1 ELSE count

\* if (isCorrect) { correctAnswers++; } inside the scoring block.
CountCorrect(count, r) ==
    IF r.pushed /\ r.detail.isCorrect THEN count + 1 ELSE count

\* userAnswersDetails.push({...}) inside the scoring block.
PushDetail(details, r) ==
    IF r.pushed THEN Append(details, r.detail) ELSE details

\* totalQuestions > 0 ? (correctAnswers / totalQuestions) * 100 : 0, kept as
\* the exact fraction num / den (the code computes it in floating point).
Percentage(correct, totalQuestions) ==
    IF totalQuestions > 0 THEN [num |-> correct * 100, den |-> totalQuestions]
    ELSE [num |-> 0, den |-> 1]

\* Faulty totals: the scored questions are counted, not the questions.
CalculatedResults_CountsDetails(correct, qs, details) ==
    [score |-> correct,
     totalQuestions |-> Len(details),
     percentage |-> Percentage(correct, Len(details)),
     userAnswers |-> details]

\* The object handed to setResults.
CalculatedResults(correct, qs, details) ==
    [score |-> correct,
     totalQuestions |-> Len(qs),
     percentage |-> Percentage(correct, Len(qs)),
     userAnswers |-> details]

\* The whole scoring of a fetched quiz, from the loop to the object handed
\* to setResults: threw is TRUE when an iteration raised.
RECURSIVE ScoreFrom(_, _, _, _, _)
ScoreFrom(qs, ua, i, count, details) ==
    IF i > Len(qs)
    THEN [threw |-> FALSE, value |-> CalculatedResults(count, qs, details)]
    ELSE LET r == ScoreQuestion(qs[i], ua)
         IN  IF r.threw
             THEN [threw |-> TRUE, value |-> CalculatedResults(count, qs, details)]
             ELSE ScoreFrom(qs, ua, i + 1, CountCorrect(count, r), PushDetail(details, r))

CalculateResults(qs, ua) == ScoreFrom(qs, ua, 1, 0, <<>>)

\* -------------------------------------------------------------- actions
Init ==
    /\ quizInfo \in {Null, Some(1)}
    /\ userAnswers \in {Null} \cup {Some(ua) : ua \in Submissions}
    /\ pc = "mount"
    /\ questions = <<>>
    /\ index = 1
    /\ correctAnswers = 0
    /\ userAnswersDetails = <<>>
    /\ results = Null
    /\ isCalculating = TRUE
    /\ navigatedTo = Null
    /\ error = Null
    /\ runs = Unused
    /\ runCorrectAnswers = Unused
    /\ runUserAnswersDetails = Unused
    /\ takeQuiz = Unused
    /\ authoring = Unused
    /\ quizSubmission = Unused

\* if (!quizInfo || !userAnswers) { navigate('/student'); return; }
MountMissingState ==
    /\ pc = "mount"
    /\ quizInfo = Null \/ userAnswers = Null
    /\ navigatedTo' = Some("/student")
    /\ pc' = "returned"
    /\ UNCHANGED <<quizInfo, userAnswers, questions, index, correctAnswers,
                   userAnswersDetails, results, isCalculating, error>>
    /\ UNCHANGED otherVars

\* Entering the try block: axios.get is issued and awaited.
MountFetch ==
    /\ pc = "mount"
    /\ quizInfo # Null /\ userAnswers # Null
    /\ pc' = "fetching"
    /\ UNCHANGED <<quizInfo, userAnswers, questions, index, correctAnswers,
                   userAnswersDetails, results, isCalculating, navigatedTo, error>>
    /\ UNCHANGED otherVars

\* The request resolves: questions = response.data.questions || [], and the
\* loop locals are initialised.
FetchOk ==
    /\ pc = "fetching"
    /\ \E data \in {Null} \cup {Some(qs) : qs \in QuestionSeqs} :
          questions' = IF data = Null THEN <<>> ELSE data[1]
    /\ index' = 1
    /\ correctAnswers' = 0
    /\ userAnswersDetails' = <<>>
    /\ pc' = "forEach"
    /\ UNCHANGED <<quizInfo, userAnswers, results, isCalculating, navigatedTo, error>>
    /\ UNCHANGED otherVars

\* The request rejects: the catch block logs and navigates away.
FetchFail ==
    /\ pc = "fetching"
    /\ error' = Some("AxiosError")
    /\ navigatedTo' = Some("/student")
    /\ pc' = "finally"
    /\ UNCHANGED <<quizInfo, userAnswers, questions, index, correctAnswers,
                   userAnswersDetails, results, isCalculating>>
    /\ UNCHANGED otherVars

\* One iteration of questions.forEach; an exception leaves the loop for the
\* catch block.
ForEachQuestion ==
    /\ pc = "forEach"
    /\ index <= Len(questions)
    /\ LET r == ScoreQuestion(questions[index], userAnswers[1])
       IN  IF r.threw
           THEN /\ error' = Some("TypeError")
                /\ navigatedTo' = Some("/student")
                /\ pc' = "finally"
                /\ UNCHANGED <<index, correctAnswers, userAnswersDetails>>
           ELSE /\ correctAnswers' = CountCorrect(correctAnswers, r)
                /\ userAnswersDetails' = PushDetail(userAnswersDetails, r)
                /\ index' = index + 1
                /\ UNCHANGED <<error, navigatedTo, pc>>
    /\ questions' = [questions EXCEPT ![index].reponses = ReponsesAfterSort(questions[index])]
    /\ UNCHANGED <<quizInfo, userAnswers, results, isCalculating>>
    /\ UNCHANGED otherVars

\* After the loop: totalQuestions, percentage and setResults.
SetResults ==
    /\ pc = "forEach"
    /\ index > Len(questions)
    /\ results' = Some(CalculatedResults(correctAnswers, questions, userAnswersDetails))
    /\ pc' = "finally"
    /\ UNCHANGED <<quizInfo, userAnswers, questions, index, correctAnswers,
                   userAnswersDetails, isCalculating, navigatedTo, error>>
    /\ UNCHANGED otherVars

\* finally { setIsCalculating(false); }
Finally ==
    /\ pc = "finally"
    /\ isCalculating' = FALSE
    /\ pc' = "done"
    /\ UNCHANGED <<quizInfo, userAnswers, questions, index, correctAnswers,
                   userAnswersDetails, results, navigatedTo, error>>
    /\ UNCHANGED otherVars

Next ==
    \/ MountMissingState
    \/ MountFetch
    \/ FetchOk
    \/ FetchFail
    \/ ForEachQuestion
    \/ SetResults
    \/ Finally

Spec == Init /\ [][Next]_vars

TypeOK ==
    /\ pc \in {"mount", "returned", "fetching", "forEach", "finally", "done"}
    /\ index \in 1..(MaxQuestions + 1)
    /\ correctAnswers \in 0..MaxQuestions
    /\ isCalculating \in BOOLEAN

\* ------------------------------------------------- vocabulary of the claims
HasResults == results # Null

\* The submitted identifiers for a question, as a set: a missing entry gives
\* the empty set, a scalar a singleton, a list its elements.
SubmittedIds(q) ==
    IF userAnswers = Null \/ q.id \notin DOMAIN userAnswers[1] THEN {}
    ELSE LET e == userAnswers[1][q.id]
         IN  IF e.kind = "number" THEN {e.num}
             ELSE IF e.kind = "array" THEN Range(e.arr)
             ELSE {}

OwnIds(q) == {q.reponses[j].id : j \in 1..Len(q.reponses)}

CorrectIds(q) == {q.reponses[j].id : j \in {k \in 1..Len(q.reponses) : q.reponses[k].correct}}

\* The submitted identifiers that are answers of the question.
ResolvedIds(q) == SubmittedIds(q) \cap OwnIds(q)

\* Positions of the details of a question in a detail sequence.
DetailsOf(details, q) == {k \in 1..Len(details) : details[k].questionId = q.id}

MarkedCorrect(details, q) == \E k \in DetailsOf(details, q) : details[k].isCorrect

NumCorrectDetails(details) == Cardinality({k \in 1..Len(details) : details[k].isCorrect})

\* ---------------------------------------------------------------------- C1
\* C1: a question with more than one correct answer is marked correct exactly
\* when the submitted answers resolved for it are the set of all its correct
\* answers; a strict subset, or a selection holding an incorrect answer, is
\* marked not correct.
C1_MultipleChoiceExactSet ==
    HasResults =>
        \A i \in 1..Len(questions) :
            LET q == questions[i] IN
            Cardinality(CorrectIds(q)) > 1 =>
                /\ MarkedCorrect(results[1].userAnswers, q) <=> (ResolvedIds(q) = CorrectIds(q))
                /\ \A k \in DetailsOf(results[1].userAnswers, q) :
                      results[1].userAnswers[k].isCorrect <=> (ResolvedIds(q) = CorrectIds(q))

\* A multiple-choice question with an incorrect answer too, answered with
\* exactly its correct answers and marked correct.
C1_Witness ==
    /\ HasResults
    /\ \E i \in 1..Len(questions) :
          /\ Cardinality(CorrectIds(questions[i])) > 1
          /\ CorrectIds(questions[i]) # OwnIds(questions[i])
          /\ MarkedCorrect(results[1].userAnswers, questions[i])

\* ---------------------------------------------------------------------- C2
\* C2: a question with at most one correct answer is marked correct exactly
\* when an answer was submitted for it and no submitted answer of the question
\* is flagged incorrect, whether the entry is a scalar or a list.
C2_SingleChoiceCorrectIffSubmittedCorrect ==
    HasResults =>
        \A i \in 1..Len(questions) :
            LET q == questions[i] IN
            Cardinality(CorrectIds(q)) <= 1 =>
                (MarkedCorrect(results[1].userAnswers, q)
                    <=> (ResolvedIds(q) # {} /\ ResolvedIds(q) \subseteq CorrectIds(q)))

\* ---------------------------------------------------------------------- C3
\* C3: a question without entry in the submission, or whose entry resolves to
\* none of its answers, has no detail and adds nothing to the score, and is
\* still counted in totalQuestions.
C3_UnansweredOmittedButCounted ==
    HasResults =>
        /\ results[1].totalQuestions = Len(questions)
        /\ \A i \in 1..Len(questions) :
              ResolvedIds(questions[i]) = {} => DetailsOf(results[1].userAnswers, questions[i]) = {}
        /\ results[1].score <=
              Cardinality({i \in 1..Len(questions) : ResolvedIds(questions[i]) # {}})

\* Two questions, one answered correctly, the other (with a correct answer)
\* left out of the submission.
C3_Witness ==
    /\ HasResults
    /\ results[1].totalQuestions = 2
    /\ results[1].score = 1
    /\ \E i \in 1..Len(questions) :
          /\ SubmittedIds(questions[i]) = {}
          /\ CorrectIds(questions[i]) # {}

\* ---------------------------------------------------------------------- C4
\* C4 (as amended): a question has exactly one detail when at least one
\* submitted identifier matches one of its answers and it has at least one
\* answer flagged correct, and no detail otherwise; a question with no answer
\* flagged correct is never marked correct.
C4_DetailIffAnsweredAndHasCorrect ==
    HasResults =>
        \A i \in 1..Len(questions) :
            LET q == questions[i] IN
            /\ Cardinality(DetailsOf(results[1].userAnswers, q)) =
                  IF ResolvedIds(q) # {} /\ CorrectIds(q) # {} THEN 1 ELSE 0
            /\ CorrectIds(q) = {} => ~MarkedCorrect(results[1].userAnswers, q)

\* C4 as stated: every question with a matching submitted identifier has
\* exactly one detail, a question without correct answer included (its detail
\* then not correct); only an empty resolved set skips the question.
C4_Original ==
    HasResults =>
        \A i \in 1..Len(questions) :
            LET q == questions[i] IN
            /\ Cardinality(DetailsOf(results[1].userAnswers, q)) =
                  IF ResolvedIds(q) # {} THEN 1 ELSE 0
            /\ CorrectIds(q) = {} => ~MarkedCorrect(results[1].userAnswers, q)

\* An answered question without correct answer is skipped next to an answered
\* question that has its detail.
C4_Witness ==
    /\ HasResults
    /\ \E i \in 1..Len(questions) :
          /\ ResolvedIds(questions[i]) # {}
          /\ CorrectIds(questions[i]) = {}
          /\ DetailsOf(results[1].userAnswers, questions[i]) = {}
    /\ \E i \in 1..Len(questions) :
          Cardinality(DetailsOf(results[1].userAnswers, questions[i])) = 1

\* ---------------------------------------------------------------------- C5
\* C5: totalQuestions is the number of questions, 0 <= score <= totalQuestions,
\* percentage is score / totalQuestions * 100 when totalQuestions > 0 and 0
\* otherwise, so 0 <= percentage <= 100.
C5_TotalsAndPercentage ==
    HasResults =>
        LET r == results[1] IN
        /\ r.totalQuestions = Len(questions)
        /\ 0 <= r.score /\ r.score <= r.totalQuestions
        /\ r.percentage.den > 0
        /\ r.totalQuestions > 0 =>
              r.percentage.num * r.totalQuestions = r.score * 100 * r.percentage.den
        /\ r.totalQuestions = 0 => r.percentage.num = 0
        /\ 0 <= r.percentage.num /\ r.percentage.num <= 100 * r.percentage.den

\* Two questions with a detail each, one of them correct: 50 percent.
C5_Witness ==
    /\ HasResults
    /\ results[1].totalQuestions = 2
    /\ results[1].score = 1
    /\ Len(results[1].userAnswers) = 2
    /\ results[1].percentage.num = 50 * results[1].percentage.den

\* ---------------------------------------------------------------------- C6
\* The submission without the entries of question ids that are not in the
\* fetched quiz.
KnownEntries ==
    LET known == {questions[i].id : i \in 1..Len(questions)}
    IN  [k \in (DOMAIN userAnswers[1]) \cap known |-> userAnswers[1][k]]

\* C6: entries keyed by a question id that is not in the quiz are ignored:
\* the published result is the result of scoring the submission without
\* them, and no error is raised.
C6_UnknownEntriesIgnored ==
    /\ error # Some("TypeError")
    /\ HasResults =>
          /\ ~CalculateResults(questions, KnownEntries).threw
          /\ results[1] = CalculateResults(questions, KnownEntries).value

\* A scored quiz whose submission holds a non-empty entry for a question id
\* the quiz does not have, next to an answered question.
C6_Witness ==
    /\ HasResults
    /\ Len(results[1].userAnswers) > 0
    /\ \E k \in DOMAIN userAnswers[1] :
          /\ k \notin {questions[i].id : i \in 1..Len(questions)}
          /\ userAnswers[1][k].kind # "undefined"
          /\ EntryWeight(userAnswers[1][k]) > 0

\* ---------------------------------------------------------------------- C7
\* C7: the scoring never raises: whatever the questions (no answers, no
\* correct answer) and the submission (missing, extraneous, scalar or list
\* entries), no iteration throws and once the questions are fetched the
\* effect ends with a result.
C7_ScoringNeverRaises ==
    /\ error # Some("TypeError")
    /\ (pc \in {"finally", "done"} /\ error = Null) => HasResults
    /\ (pc = "forEach" /\ index <= Len(questions)) =>
          ~ScoreQuestion(questions[index], userAnswers[1]).threw

\* A result for a quiz holding a question without answers and an answered
\* question without correct answer.
C7_Witness ==
    /\ HasResults
    /\ pc = "done"
    /\ \E i \in 1..Len(questions) :
          Len(questions[i].reponses) = 0 /\ SubmittedIds(questions[i]) # {}
    /\ \E i \in 1..Len(questions) :
          /\ Len(questions[i].reponses) > 0
          /\ CorrectIds(questions[i]) = {}
          /\ ResolvedIds(questions[i]) # {}

\* ---------------------------------------------------------------------- C8
\* The question of the fetched quiz a detail was emitted for.
QuestionOf(d) == CHOOSE q \in Range(questions) : q.id = d.questionId

\* C8: in every detail, correctAnswers is the subset of the question's
\* answers flagged correct, userAnswers the subset of its answers whose id is
\* in the normalized entry (foreign ids dropped, duplicates collapsed), and
\* isMultipleChoice says that correctAnswers has more than one element.
C8_DetailContents ==
    HasResults =>
        \A k \in 1..Len(results[1].userAnswers) :
            LET d == results[1].userAnswers[k]
                q == QuestionOf(d)
                correct == {a \in Range(q.reponses) : a.correct}
                submitted == {a \in Range(q.reponses) : a.id \in SubmittedIds(q)}
            IN  /\ \E x \in Range(questions) : x.id = d.questionId
                /\ Range(d.correctAnswers) = correct
                /\ Len(d.correctAnswers) = Cardinality(correct)
                /\ Range(d.userAnswers) = submitted
                /\ Len(d.userAnswers) = Cardinality(submitted)
                /\ d.isMultipleChoice <=> (Len(d.correctAnswers) > 1)

\* A detail for a question whose entry is a list holding a duplicate and an
\* id that is no answer of the question.
C8_Witness ==
    /\ HasResults
    /\ \E k \in 1..Len(results[1].userAnswers) :
          LET q == QuestionOf(results[1].userAnswers[k])
              e == userAnswers[1][q.id]
          IN  /\ e.kind = "array"
              /\ Len(e.arr) > Cardinality(Range(e.arr))
              /\ ~(Range(e.arr) \subseteq OwnIds(q))

\* ---------------------------------------------------------------------- C9
\* C9: the score is the number of details whose isCorrect is true, at every
\* point of the loop and in the published result, so it never exceeds the
\* length of the detail sequence.
C9_ScoreCountsCorrectDetails ==
    /\ correctAnswers = NumCorrectDetails(userAnswersDetails)
    /\ correctAnswers <= Len(userAnswersDetails)
    /\ HasResults =>
          /\ results[1].score = NumCorrectDetails(results[1].userAnswers)
          /\ results[1].score <= Len(results[1].userAnswers)

\* Two details, exactly one of them correct.
C9_Witness ==
    /\ HasResults
    /\ Len(results[1].userAnswers) = 2
    /\ results[1].score = 1
    /\ ~results[1].userAnswers[1].isCorrect

\* --------------------------------------------------------------------- C10
\* Every question has a correct answer and the submission gives, for every
\* question, exactly its correct answers.
AllAnsweredExactly ==
    \A i \in 1..Len(questions) :
        /\ CorrectIds(questions[i]) # {}
        /\ SubmittedIds(questions[i]) = CorrectIds(questions[i])

AllMarkedCorrect ==
    \A i \in 1..Len(questions) : MarkedCorrect(results[1].userAnswers, questions[i])

\* C10 (as amended): if the quiz has at least one question, every question
\* has a correct answer and the submission gives for every question exactly
\* its correct answers, then score = totalQuestions, percentage = 100 and
\* every question has a detail marked correct.
C10_AllExactGivesFullScore ==
    (HasResults /\ Len(questions) > 0 /\ AllAnsweredExactly) =>
        /\ results[1].score = results[1].totalQuestions
        /\ results[1].percentage.num = 100 * results[1].percentage.den
        /\ AllMarkedCorrect

\* C10 as stated, for every quiz, the empty one included.
C10_Original ==
    (HasResults /\ AllAnsweredExactly) =>
        /\ results[1].score = results[1].totalQuestions
        /\ results[1].percentage.num = 100 * results[1].percentage.den
        /\ AllMarkedCorrect

\* A single-choice and a multiple-choice question, both answered exactly.
C10_Witness ==
    /\ HasResults
    /\ AllAnsweredExactly
    /\ Len(questions) = 2
    /\ \E i \in 1..2 : Cardinality(CorrectIds(questions[i])) = 1
    /\ \E i \in 1..2 : Cardinality(CorrectIds(questions[i])) > 1
    /\ results[1].score = 2

\* ------------------------------------- executions of the effect side by side
\* Two executions of the calculateResults effect of one page instance (the
\* effect runs again when one of its dependencies changes, and twice on mount
\* under React.StrictMode).  They share the navigation state and the React
\* state; each has its own `response`, `questions` and forEach position.  The
\* steps of the executions interleave freely here; the JavaScript event loop
\* allows only the interleavings that switch at the await.
Runs == 1..2

\* Faulty binding: `correctAnswers` declared outside calculateResults, one
\* binding for all executions.
CountSlot_Shared(r) == 1

\* let correctAnswers = 0 inside calculateResults: a binding per execution.
CountSlot(r) == r

\* Faulty binding: `userAnswersDetails` declared outside calculateResults.
DetailsSlot_Shared(r) == 1

\* const userAnswersDetails = [] inside calculateResults: an array per
\* execution.
DetailsSlot(r) == r

InitRuns ==
    /\ quizInfo \in {Null, Some(1)}
    /\ userAnswers \in {Null} \cup {Some(ua) : ua \in Submissions}
    /\ results = Null
    /\ isCalculating = TRUE
    /\ navigatedTo = Null
    /\ \E qs \in QuestionSeqs :
          runs = [server |-> qs,
                  exec |-> [r \in Runs |->
                      [pc |-> "mount", questions |-> <<>>, index |-> 1,
                       error |-> Null, published |-> Null]]]
    /\ runCorrectAnswers = [r \in Runs |-> 0]
    /\ runUserAnswersDetails = [r \in Runs |-> <<>>]
    /\ pc = Unused
    /\ questions = Unused
    /\ index = Unused
    /\ correctAnswers = Unused
    /\ userAnswersDetails = Unused
    /\ error = Unused
    /\ takeQuiz = Unused
    /\ authoring = Unused
    /\ quizSubmission = Unused

\* What no execution of the effect writes.
runFrame == <<quizInfo, userAnswers, pc, questions, index, correctAnswers,
              userAnswersDetails, error, takeQuiz, authoring, quizSubmission>>

\* if (!quizInfo || !userAnswers) { navigate('/student'); return; }
RunMountMissingState(r) ==
    /\ runs.exec[r].pc = "mount"
    /\ quizInfo = Null \/ userAnswers = Null
    /\ navigatedTo' = Some("/student")
    /\ runs' = [runs EXCEPT !.exec[r].pc = "returned"]
    /\ UNCHANGED <<runCorrectAnswers, runUserAnswersDetails, results, isCalculating>>
    /\ UNCHANGED runFrame

\* Entering the try block: axios.get is issued and awaited.
RunMountFetch(r) ==
    /\ runs.exec[r].pc = "mount"
    /\ quizInfo # Null /\ userAnswers # Null
    /\ runs' = [runs EXCEPT !.exec[r].pc = "fetching"]
    /\ UNCHANGED <<runCorrectAnswers, runUserAnswersDetails, results, isCalculating,
                   navigatedTo>>
    /\ UNCHANGED runFrame

\* The request resolves with the questions the server holds; the loop locals
\* of this execution are initialised.
RunFetchOk(r) ==
    /\ runs.exec[r].pc = "fetching"
    /\ runs' = [runs EXCEPT !.exec[r].pc = "forEach",
                            !.exec[r].questions = runs.server,
                            !.exec[r].index = 1]
    /\ runCorrectAnswers' = [runCorrectAnswers EXCEPT ![CountSlot(r)] = 0]
    /\ runUserAnswersDetails' = [runUserAnswersDetails EXCEPT ![DetailsSlot(r)] = <<>>]
    /\ UNCHANGED <<results, isCalculating, navigatedTo>>
    /\ UNCHANGED runFrame

\* The request rejects: the catch block logs and navigates away.
RunFetchFail(r) ==
    /\ runs.exec[r].pc = "fetching"
    /\ runs' = [runs EXCEPT !.exec[r].pc = "finally",
                            !.exec[r].error = Some("AxiosError")]
    /\ navigatedTo' = Some("/student")
    /\ UNCHANGED <<runCorrectAnswers, runUserAnswersDetails, results, isCalculating>>
    /\ UNCHANGED runFrame

\* One iteration of questions.forEach of execution r.
RunForEachQuestion(r) ==
    /\ runs.exec[r].pc = "forEach"
    /\ runs.exec[r].index <= Len(runs.exec[r].questions)
    /\ LET res == ScoreQuestion(runs.exec[r].questions[runs.exec[r].index], userAnswers[1])
       IN  IF res.threw
           THEN /\ runs' = [runs EXCEPT !.exec[r].pc = "finally",
                                        !.exec[r].error = Some("TypeError")]
                /\ navigatedTo' = Some("/student")
                /\ UNCHANGED <<runCorrectAnswers, runUserAnswersDetails>>
           ELSE /\ runCorrectAnswers' =
                      [runCorrectAnswers EXCEPT ![CountSlot(r)] = CountCorrect(@, res)]
                /\ runUserAnswersDetails' =
                      [runUserAnswersDetails EXCEPT ![DetailsSlot(r)] = PushDetail(@, res)]
                /\ runs' = [runs EXCEPT !.exec[r].index = @ + 1]
                /\ UNCHANGED navigatedTo
    /\ UNCHANGED <<results, isCalculating>>
    /\ UNCHANGED runFrame

\* After the loop of execution r: totalQuestions, percentage and setResults.
RunSetResults(r) ==
    /\ runs.exec[r].pc = "forEach"
    /\ runs.exec[r].index > Len(runs.exec[r].questions)
    /\ LET calculatedResults ==
               CalculatedResults(runCorrectAnswers[CountSlot(r)], runs.exec[r].questions,
                                 runUserAnswersDetails[DetailsSlot(r)])
       IN  /\ results' = Some(calculatedResults)
           /\ runs' = [runs EXCEPT !.exec[r].pc = "finally",
                                   !.exec[r].published = Some(calculatedResults)]
    /\ UNCHANGED <<runCorrectAnswers, runUserAnswersDetails, isCalculating, navigatedTo>>
    /\ UNCHANGED runFrame

\* finally { setIsCalculating(false); } of execution r.
RunFinally(r) ==
    /\ runs.exec[r].pc = "finally"
    /\ isCalculating' = FALSE
    /\ runs' = [runs EXCEPT !.exec[r].pc = "done"]
    /\ UNCHANGED <<runCorrectAnswers, runUserAnswersDetails, results, navigatedTo>>
    /\ UNCHANGED runFrame

NextRuns ==
    \E r \in Runs :
        \/ RunMountMissingState(r)
        \/ RunMountFetch(r)
        \/ RunFetchOk(r)
        \/ RunFetchFail(r)
        \/ RunForEachQuestion(r)
        \/ RunSetResults(r)
        \/ RunFinally(r)

SpecRuns == InitRuns /\ [][NextRuns]_vars

\* The result execution r handed to setResults, when it has.
Published(r) == runs.exec[r].published

C12_InputsUnchanged ==
    [][pc = "forEach" => (questions' = questions /\ userAnswers' = userAnswers)]_vars

\* The scoring has returned after comparing, through sort(), the ids of a
\* multiple-choice question whose answers are not in the order sort() gives.
C12_Witness ==
    /\ HasResults
    /\ \E k \in 1..Len(results[1].userAnswers) : \E i \in 1..Len(questions) :
          /\ results[1].userAnswers[k].isMultipleChoice
          /\ questions[i].id = results[1].userAnswers[k].questionId
          /\ MapId(questions[i].reponses) # Sort(MapId(questions[i].reponses))

\* C13: interleaved executions of the scoring do not interfere.  Whatever
\* the order of the steps of the two executions, the result an execution
\* hands to setResults is the result the scoring gives for its questions
\* and the submission when it runs alone.
C13_RunsDoNotInterfere ==
    \A r \in Runs :
        Published(r) # Null =>
            Published(r)[1] = CalculateResults(runs.exec[r].questions, userAnswers[1]).value

\* Execution 2 has published a result with two details while execution 1,
\* which started its loop, is between its two iterations with one detail.
C13_Witness ==
    /\ Published(2) # Null
    /\ Len(Published(2)[1].userAnswers) = 2
    /\ runs.exec[1].pc = "forEach"
    /\ runs.exec[1].index = 2
    /\ Len(runUserAnswersDetails[DetailsSlot(1)]) = 1

\* ------------------------------------------- ApiQuestionController (backend)
\* addQuestion (POST /api/quizzes/{id}/questions) and updateQuestion
\* (PUT /api/questions/{id}), each handled as one step: guards, validation,
\* writes and response; requests are handled one after the other.  One questionnaire (id 1) exists; its question, once
\* created, has id 1.  `stored` holds the answers of that question as the
\* database has them.
HTTP_OK == 200
HTTP_CREATED == 201
HTTP_BAD_REQUEST == 400
HTTP_FORBIDDEN == 403
HTTP_NOT_FOUND == 404
HTTP_INTERNAL_SERVER_ERROR == 500

\* Who sends the request: the administrator who created the questionnaire,
\* another administrator, or a user without ROLE_ADMIN.
Callers == {"owner", "otherAdmin", "student"}

\* The text of a question in a request body (already trimmed): its length and
\* whether it ends with a question mark; Null when the key is not set.
QuestionTexts ==
    {Null} \cup {Some([len |-> n, question |-> b]) : n \in {0, 4, 8}, b \in BOOLEAN}

\* One answer of a request body: whether its text is empty, and its
\* correctness flag under the key the handler reads ('correct' for
\* addQuestion, 'estCorrecte' for updateQuestion), Null when the key is not set.
AnswerData == [text : {"", "a"}, flag : {Null, Some(TRUE), Some(FALSE)}]

\* The decoded request bodies: the answers key holds an array or is not set.
Requests ==
    [caller : Callers,
     id : {1, 2},
     text : QuestionTexts,
     answers : {Null} \cup {Some(s) : s \in SeqsUpTo(AnswerData, MaxAnswers)}]

InitAuthoring ==
    /\ authoring = [stored |-> Null, handler |-> "none", request |-> Null, status |-> 0]
    /\ quizInfo = Unused
    /\ userAnswers = Unused
    /\ pc = Unused
    /\ questions = Unused
    /\ index = Unused
    /\ correctAnswers = Unused
    /\ userAnswersDetails = Unused
    /\ results = Unused
    /\ isCalculating = Unused
    /\ navigatedTo = Unused
    /\ error = Unused
    /\ runs = Unused
    /\ runCorrectAnswers = Unused
    /\ runUserAnswersDetails = Unused
    /\ takeQuiz = Unused
    /\ quizSubmission = Unused

\* What the controller does not touch.
authoringFrame == <<quizInfo, userAnswers, pc, questions, index, correctAnswers,
                    userAnswersDetails, results, isCalculating, navigatedTo, error,
                    runs, runCorrectAnswers, runUserAnswersDetails, takeQuiz,
                    quizSubmission>>

\* !isset($data['text']) || empty($data['text'])
TextMissing(text) == text = Null \/ text[1].len = 0

\* updateQuestion: strlen < 5, strlen > 2000, !str_ends_with(..., '?')
TextRefused(text) == text[1].len < 5 \/ text[1].len > 2000 \/ ~text[1].question

\* Faulty validation: one answer is enough.
TooFewAnswers_One(answers) == answers = Null \/ Len(answers[1]) < 1

\* !isset($data['answers']) || !is_array($data['answers']) || count(...) < 2
TooFewAnswers(answers) == answers = Null \/ Len(answers[1]) < 2

\* !isset($answerData['text']) || empty($answerData['text']), for some answer
SomeAnswerWithoutText(answers) == \E i \in 1..Len(answers[1]) : answers[1][i].text = ""

\* $hasCorrectAnswer after the loop: isset($answerData['correct']) &&
\* $answerData['correct'] for some answer.
HasCorrectAnswer(answers) ==
    \E i \in 1..Len(answers[1]) : answers[1][i].flag # Null /\ answers[1][i].flag[1]

\* The Reponse rows created from the request:
\* setEstCorrecte($answerData['correct'] ?? false), setNumeroOrdre($index + 1).
NewReponses(answers) ==
    [i \in 1..Len(answers[1]) |->
        [texte |-> answers[1][i].text,
         estCorrecte |-> IF answers[1][i].flag = Null THEN FALSE ELSE answers[1][i].flag[1],
         numeroOrdre |-> i]]

\* The status addQuestion answers with before it writes anything, 0 when the
\* request passes every guard.  #[IsGranted('ROLE_ADMIN')] precedes the body.
AddQuestionRefusal(request) ==
    IF request.caller = "student" THEN HTTP_FORBIDDEN
    ELSE IF request.id # 1 THEN HTTP_NOT_FOUND
    ELSE IF request.caller # "owner" THEN HTTP_FORBIDDEN
    ELSE IF TextMissing(request.text) THEN HTTP_BAD_REQUEST
    ELSE IF TooFewAnswers(request.answers) THEN HTTP_BAD_REQUEST
    ELSE IF SomeAnswerWithoutText(request.answers) THEN HTTP_BAD_REQUEST
    ELSE IF ~HasCorrectAnswer(request.answers) THEN HTTP_BAD_REQUEST
    ELSE 0

\* The same for updateQuestion; the question is found when it was created.
UpdateQuestionRefusal(request, stored) ==
    IF request.caller = "student" THEN HTTP_FORBIDDEN
    ELSE IF request.id # 1 \/ stored = Null THEN HTTP_NOT_FOUND
    ELSE IF request.caller # "owner" THEN HTTP_FORBIDDEN
    ELSE IF TextMissing(request.text) THEN HTTP_BAD_REQUEST
    ELSE IF TextRefused(request.text) THEN HTTP_BAD_REQUEST
    ELSE IF TooFewAnswers(request.answers) THEN HTTP_BAD_REQUEST
    ELSE IF SomeAnswerWithoutText(request.answers) THEN HTTP_BAD_REQUEST
    ELSE IF ~HasCorrectAnswer(request.answers) THEN HTTP_BAD_REQUEST
    ELSE 0

\* addQuestion: refusal, or the question and its answers are persisted and
\* flushed (201); a failing flush stores nothing (500).
AddQuestion ==
    /\ authoring.handler = "none"
    /\ \E request \in Requests : \E flushed \in BOOLEAN :
        LET refusal == AddQuestionRefusal(request)
        IN  authoring' =
                [stored |-> IF refusal = 0 /\ flushed THEN Some(NewReponses(request.answers))
                            ELSE authoring.stored,
                 handler |-> "addQuestion",
                 request |-> Some(request),
                 status |-> IF refusal # 0 THEN refusal
                            ELSE IF flushed THEN HTTP_CREATED
                            ELSE HTTP_INTERNAL_SERVER_ERROR]
    /\ UNCHANGED authoringFrame

\* updateQuestion: refusal, or the answers of the question are removed
\* (flush) and the answers of the request created (flush), 200.  The flushes
\* are separate: an exception leaves the question as it was before the flush
\* that failed, that is unchanged or without answers (500).
UpdateQuestion ==
    /\ authoring.handler = "none"
    /\ \E request \in Requests : \E flushed \in {"all", "none", "removals"} :
        LET refusal == UpdateQuestionRefusal(request, authoring.stored)
        IN  authoring' =
                [stored |-> IF refusal # 0 \/ flushed = "none" THEN authoring.stored
                            ELSE IF flushed = "removals" THEN Some(<<>>)
                            ELSE Some(NewReponses(request.answers)),
                 handler |-> "updateQuestion",
                 request |-> Some(request),
                 status |-> IF refusal # 0 THEN refusal
                            ELSE IF flushed = "all" THEN HTTP_OK
                            ELSE HTTP_INTERNAL_SERVER_ERROR]
    /\ UNCHANGED authoringFrame

\* The response is sent and the request ends: the next request finds the
\* database as this one left it.
ResponseSent ==
    /\ authoring.handler # "none"
    /\ authoring' = [stored |-> authoring.stored, handler |-> "none",
                     request |-> Null, status |-> 0]
    /\ UNCHANGED authoringFrame

NextAuthoring ==
    \/ AddQuestion
    \/ UpdateQuestion
    \/ ResponseSent

SpecAuthoring == InitAuthoring /\ [][NextAuthoring]_vars

\* A stored question with at least two answers, one of them flagged correct.
WellFormedQuestion(stored) ==
    /\ stored # Null
    /\ Len(stored[1]) >= 2
    /\ \E i \in 1..Len(stored[1]) : stored[1][i].estCorrecte

\* The request has fewer than two answers or no answer flagged correct.
IllFormedRequest(request) ==
    \/ request.answers = Null
    \/ Len(request.answers[1]) < 2
    \/ \A i \in 1..Len(request.answers[1]) :
          request.answers[1][i].flag = Null \/ ~request.answers[1][i].flag[1]

Accepted == authoring.status \in {HTTP_CREATED, HTTP_OK}

ReadKey(obj, key) == IF key \in DOMAIN obj THEN Some(obj[key]) ELSE Null

\* Truthiness of a value read from an object.
Truthy(value) == value # Null /\ value[1] = TRUE

\* The transformation with the flag read under `correct`, the key the backend
\* sends: the multiple-choice branch of handleAnswerSelect is then taken.
TransformAnswer_ReadsCorrect(answerData) ==
    [id |-> answerData.id, isCorrect |-> ReadKey(answerData, "correct")]

\* answerData => ({id: answerData.id, ..., isCorrect: answerData.estCorrecte})
TransformAnswer(answerData) ==
    [id |-> answerData.id, isCorrect |-> ReadKey(answerData, "estCorrecte")]

\* questionData => ({id: questionData.id, ..., answers: reponses.map(...)})
TransformQuestion(questionData) ==
    [id |-> questionData.id,
     answers |-> [j \in 1..Len(questionData.reponses) |->
                     TransformAnswer(questionData.reponses[j])]]

\* quizData.questions.map(...)
TransformedQuestions(quizData) == [i \in 1..Len(quizData) |-> TransformQuestion(quizData[i])]

\* question.answers.filter(answer => answer.isCorrect).length > 1
IsTruthyCorrect(answer) == Truthy(answer.isCorrect)

IsMultipleChoiceQuestion(question) == Len(SelectSeq(question.answers, IsTruthyCorrect)) > 1

\* {...prevAnswers, [questionId]: value}
WithEntry(prevAnswers, questionId, value) ==
    [k \in DOMAIN prevAnswers \cup {questionId} |->
        IF k = questionId THEN value ELSE prevAnswers[k]]

\* Faulty update: the multiple-choice branch replaces the list by the one
\* answer, as the single-choice branch does.
HandleAnswerSelect_NoToggle(prevAnswers, qs, questionId, answerId) ==
    IF \A i \in 1..Len(qs) : qs[i].id # questionId THEN prevAnswers
    ELSE WithEntry(prevAnswers, questionId, NumberEntry(answerId))

\* The updater handleAnswerSelect passes to setUserAnswers.
HandleAnswerSelect(prevAnswers, qs, questionId, answerId) ==
    IF \A i \in 1..Len(qs) : qs[i].id # questionId THEN prevAnswers
    ELSE LET question == qs[CHOOSE i \in 1..Len(qs) : qs[i].id = questionId]
             currentAnswers == IF questionId \in DOMAIN prevAnswers
                               THEN prevAnswers[questionId] ELSE UndefinedEntry
             currentArray == IF currentAnswers.kind = "array" THEN currentAnswers.arr ELSE <<>>
             NotAnswerId(id) == id # answerId
             newAnswers == IF Includes(currentArray, answerId)
                           THEN SelectSeq(currentArray, NotAnswerId)
                           ELSE Append(currentArray, answerId)
         IN  IF IsMultipleChoiceQuestion(question)
             THEN WithEntry(prevAnswers, questionId, ArrayEntry(newAnswers))
             ELSE WithEntry(prevAnswers, questionId, NumberEntry(answerId))

\* Object.keys(userAnswers).length
AnsweredCount(ua) == Cardinality(DOMAIN ua)

\* The values the render derives from the state.
IsComplete == AnsweredCount(takeQuiz.userAnswers) = Len(takeQuiz.questions)

IsLastQuestion == takeQuiz.currentQuestionIndex = Len(takeQuiz.questions) - 1

HasCurrentQuestion == takeQuiz.currentQuestionIndex + 1 \in 1..Len(takeQuiz.questions)

CurrentQuestion == takeQuiz.questions[takeQuiz.currentQuestionIndex + 1]

\* Faulty condition: the button does not wait for an answer.
CanProceed_Always == HasCurrentQuestion

\* currentQuestion && userAnswers[currentQuestion.id] !== undefined
CanProceed == HasCurrentQuestion /\ CurrentQuestion.id \in DOMAIN takeQuiz.userAnswers

\* disabled={!canProceed || (isLastQuestion && (!isComplete || isSubmitting))}
NextButtonDisabled ==
    ~CanProceed \/ (IsLastQuestion /\ (~IsComplete \/ takeQuiz.isSubmitting))

InitTakeQuiz ==
    /\ \E qs \in QuestionSeqs : \E present \in BOOLEAN :
          takeQuiz = [served |-> qs,
                      hasState |-> present,
                      pc |-> "mount",
                      questions |-> <<>>,
                      isLoading |-> TRUE,
                      currentQuestionIndex |-> 0,
                      userAnswers |-> <<>>,
                      isSubmitting |-> FALSE,
                      submit |-> "idle",
                      posted |-> Null,
                      navigatedTo |-> Null]
    /\ quizInfo = Unused
    /\ userAnswers = Unused
    /\ pc = Unused
    /\ questions = Unused
    /\ index = Unused
    /\ correctAnswers = Unused
    /\ userAnswersDetails = Unused
    /\ results = Unused
    /\ isCalculating = Unused
    /\ navigatedTo = Unused
    /\ error = Unused
    /\ runs = Unused
    /\ runCorrectAnswers = Unused
    /\ runUserAnswersDetails = Unused
    /\ authoring = Unused
    /\ quizSubmission = Unused

\* What TakeQuizPage does not touch.
takeQuizFrame == <<quizInfo, userAnswers, pc, questions, index, correctAnswers,
                   userAnswersDetails, results, isCalculating, navigatedTo, error,
                   runs, runCorrectAnswers, runUserAnswersDetails, authoring,
                   quizSubmission>>

\* Mount without participantData or quizInfo in the navigation state: the
\* effects navigate to /student.
TakeQuizMissingState ==
    /\ takeQuiz.pc = "mount"
    /\ ~takeQuiz.hasState
    /\ takeQuiz' = [takeQuiz EXCEPT !.pc = "left", !.navigatedTo = Some("/student")]
    /\ UNCHANGED takeQuizFrame

\* loadQuizQuestions up to the await: setIsLoading(true) and makeApiCall,
\* which returns null after navigate('/login') when there is no token.
LoadQuizQuestions ==
    /\ takeQuiz.pc = "mount"
    /\ takeQuiz.hasState
    /\ \E token \in BOOLEAN :
          takeQuiz' = IF token
                      THEN [takeQuiz EXCEPT !.pc = "loading", !.isLoading = TRUE]
                      ELSE [takeQuiz EXCEPT !.pc = "left", !.isLoading = FALSE,
                                            !.navigatedTo = Some("/student")]
    /\ UNCHANGED takeQuizFrame

\* The request resolves: the questions are transformed and stored.
LoadResolved ==
    /\ takeQuiz.pc = "loading"
    /\ takeQuiz' = [takeQuiz EXCEPT !.pc = "ready",
                                    !.questions = TransformedQuestions(takeQuiz.served),
                                    !.isLoading = FALSE]
    /\ UNCHANGED takeQuizFrame

\* The request fails (network error or !response.ok): toast and /student.
LoadRejected ==
    /\ takeQuiz.pc = "loading"
    /\ takeQuiz' = [takeQuiz EXCEPT !.pc = "left", !.isLoading = FALSE,
                                    !.navigatedTo = Some("/student")]
    /\ UNCHANGED takeQuizFrame

\* onChange of one of the inputs of the current question.
SelectAnswer ==
    /\ takeQuiz.pc = "ready"
    /\ HasCurrentQuestion
    /\ \E j \in 1..Len(CurrentQuestion.answers) :
          takeQuiz' = [takeQuiz EXCEPT !.userAnswers =
              HandleAnswerSelect(takeQuiz.userAnswers, takeQuiz.questions,
                                 CurrentQuestion.id, CurrentQuestion.answers[j].id)]
    /\ UNCHANGED takeQuizFrame

\* handleNextButton on a question that is not the last: goToNextQuestion.
GoToNextQuestion ==
    /\ takeQuiz.pc = "ready"
    /\ ~NextButtonDisabled
    /\ ~IsLastQuestion
    /\ takeQuiz' = [takeQuiz EXCEPT !.currentQuestionIndex =
                       IF takeQuiz.currentQuestionIndex < Len(takeQuiz.questions) - 1
                       THEN @ + 1 ELSE @]
    /\ UNCHANGED takeQuizFrame

\* handleNextButton on the last question: submitQuiz up to the await.  After
\* its guards it sets isSubmitting and calls makeApiCall, which sends the POST
\* request, or returns null after navigate('/login') when there is no token.
SubmitQuiz ==
    /\ takeQuiz.pc = "ready"
    /\ ~NextButtonDisabled
    /\ IsLastQuestion
    /\ \E token \in BOOLEAN :
          takeQuiz' =
              IF AnsweredCount(takeQuiz.userAnswers) < Len(takeQuiz.questions)
              THEN takeQuiz
              ELSE IF token
              THEN [takeQuiz EXCEPT !.isSubmitting = TRUE, !.submit = "sent",
                                    !.posted = Some(takeQuiz.userAnswers)]
              ELSE [takeQuiz EXCEPT !.isSubmitting = TRUE, !.submit = "noToken",
                                    !.pc = "left", !.navigatedTo = Some("/login")]
    /\ UNCHANGED takeQuizFrame

\* The POST request resolves with the results: navigate('/quiz-results'),
\* then finally.
SubmitResolved ==
    /\ takeQuiz.submit = "sent"
    /\ takeQuiz' = [takeQuiz EXCEPT !.submit = "idle", !.isSubmitting = FALSE,
                                    !.pc = "left", !.navigatedTo = Some("/quiz-results")]
    /\ UNCHANGED takeQuizFrame

\* Faulty handling: the flag is reset after the navigation only, not in a
\* finally block.
SubmitRejected_NoReset ==
    /\ takeQuiz.submit = "sent"
    /\ takeQuiz' = [takeQuiz EXCEPT !.submit = "idle"]
    /\ UNCHANGED takeQuizFrame

\* The POST request fails (network error or !response.ok): catch, toast,
\* then finally.
SubmitRejected ==
    /\ takeQuiz.submit = "sent"
    /\ takeQuiz' = [takeQuiz EXCEPT !.submit = "idle", !.isSubmitting = FALSE]
    /\ UNCHANGED takeQuizFrame

\* makeApiCall returned null (no token): no navigation to the results, then
\* finally.
SubmitWithoutToken ==
    /\ takeQuiz.submit = "noToken"
    /\ takeQuiz' = [takeQuiz EXCEPT !.submit = "idle", !.isSubmitting = FALSE]
    /\ UNCHANGED takeQuizFrame

NextTakeQuiz ==
    \/ TakeQuizMissingState
    \/ LoadQuizQuestions
    \/ LoadResolved
    \/ LoadRejected
    \/ SelectAnswer
    \/ GoToNextQuestion
    \/ SubmitQuiz
    \/ SubmitResolved
    \/ SubmitRejected
    \/ SubmitWithoutToken

SpecTakeQuiz == InitTakeQuiz /\ [][NextTakeQuiz]_vars

\* The answer ids an entry of userAnswers selects.
SelectedIds(entry) ==
    IF entry.kind = "number" THEN {entry.num}
    ELSE IF entry.kind = "array" THEN Range(entry.arr)
    ELSE {}

\* C15: the POST /submit request is sent only when all questions have been
\* answered: in the userAnswers it is built from, every question of the quiz
\* has an entry that selects at least one answer id.
C15_SubmitOnlyWhenAllAnswered ==
    takeQuiz.posted # Null =>
        \A i \in 1..Len(takeQuiz.questions) :
            /\ takeQuiz.questions[i].id \in DOMAIN takeQuiz.posted[1]
            /\ SelectedIds(takeQuiz.posted[1][takeQuiz.questions[i].id]) # {}

\* A request was sent for a quiz of two questions, the first of which has
\* two answers flagged correct by the backend.
C15_Witness ==
    /\ takeQuiz.posted # Null
    /\ Len(takeQuiz.questions) = 2
    /\ Len(CorrectAnswersList(takeQuiz.served[1])) = 2

\* C16: for every question the backend serves, TakeQuizPage and
\* QuizResultsPage agree on whether it is a multiple-choice question: the
\* question loaded in TakeQuizPage is multiple choice exactly when the served
\* question has more than one answer flagged correct, which is when
\* QuizResultsPage scores it as multiple choice.
C16_PagesAgreeOnMultipleChoice ==
    takeQuiz.pc = "ready" =>
        \A i \in 1..Len(takeQuiz.served) :
            IsMultipleChoiceQuestion(takeQuiz.questions[i])
                = IsMultipleChoice(CorrectAnswersList(takeQuiz.served[i]))

\* The entry of a question in a userAnswers object, UndefinedEntry without key.
EntryOf(ua, questionId) == IF questionId \in DOMAIN ua THEN ua[questionId] ELSE UndefinedEntry

\* The selected list an entry stands for in the multiple-choice branch.
SelectedList(entry) == IF entry.kind = "array" THEN entry.arr ELSE <<>>

\* newEntry is oldEntry with answerId toggled: appended when absent, removed
\* when present.
IsToggled(oldEntry, newEntry, answerId) ==
    /\ newEntry.kind = "array"
    /\ IF answerId \in Range(SelectedList(oldEntry))
       THEN /\ answerId \notin Range(newEntry.arr)
            /\ Range(newEntry.arr) = Range(SelectedList(oldEntry)) \ {answerId}
       ELSE newEntry.arr = Append(SelectedList(oldEntry), answerId)

\* C17: a selection on the current question changes userAnswers as the claim
\* says.  For a multiple-choice question (more than one answer flagged
\* correct by the backend) the entry becomes the selected list with the
\* answer toggled; for a single-choice question the entry becomes the answer
\* id; the entries of the other questions are unchanged.
C17_SelectTogglesOrReplaces ==
    [][(takeQuiz.pc = "ready" /\ takeQuiz'.userAnswers # takeQuiz.userAnswers) =>
        LET questionId == CurrentQuestion.id
            servedQuestion == takeQuiz.served[takeQuiz.currentQuestionIndex + 1]
            oldEntry == EntryOf(takeQuiz.userAnswers, questionId)
            newEntry == EntryOf(takeQuiz'.userAnswers, questionId)
        IN  /\ \A k \in (DOMAIN takeQuiz.userAnswers \cup DOMAIN takeQuiz'.userAnswers)
                            \ {questionId} :
                   EntryOf(takeQuiz'.userAnswers, k) = EntryOf(takeQuiz.userAnswers, k)
            /\ \E j \in 1..Len(CurrentQuestion.answers) :
                   IF IsMultipleChoice(CorrectAnswersList(servedQuestion))
                   THEN IsToggled(oldEntry, newEntry, CurrentQuestion.answers[j].id)
                   ELSE newEntry = NumberEntry(CurrentQuestion.answers[j].id)]_vars

\* The questions the participant has gone past all have an entry.
PassedQuestionsAnswered ==
    \A i \in 1..Len(takeQuiz.questions) :
        i < takeQuiz.currentQuestionIndex + 1 =>
            takeQuiz.questions[i].id \in DOMAIN takeQuiz.userAnswers

\* currentQuestionIndex is a position of the question list.
IndexInRange ==
    Len(takeQuiz.questions) > 0 =>
        (0 <= takeQuiz.currentQuestionIndex
            /\ takeQuiz.currentQuestionIndex <= Len(takeQuiz.questions) - 1)

\* C18: with a non-empty question list, currentQuestionIndex stays within
\* 0 .. questions.length - 1, it never decreases, and every question before
\* the current index has an entry in userAnswers.
C18_IndexBoundedMonotoneAnswered ==
    /\ IndexInRange /\ PassedQuestionsAnswered
    /\ [][/\ IndexInRange'
          /\ PassedQuestionsAnswered'
          /\ takeQuiz'.currentQuestionIndex >= takeQuiz.currentQuestionIndex]_vars

\* The participant is on the second and last question, after answering the
\* first, and has changed the answer to the second.
C18_Witness ==
    /\ takeQuiz.pc = "ready"
    /\ Len(takeQuiz.questions) = 2
    /\ takeQuiz.currentQuestionIndex = 1
    /\ DOMAIN takeQuiz.userAnswers = {1, 2}
    /\ takeQuiz.userAnswers[2] = NumberEntry(11)
    /\ Len(takeQuiz.questions[2].answers) = 2

\* The continuation of submitQuiz after its await: the promise of makeApiCall
\* always settles (the POST request resolves or rejects, and without token
\* makeApiCall returns at once), and the continuation then runs to its end.
SubmitSettles ==
    \/ SubmitResolved
    \/ SubmitRejected
    \/ SubmitWithoutToken

FairSpecTakeQuiz == SpecTakeQuiz /\ WF_vars(SubmitSettles)

\* C19: every submitQuiz attempt that sets isSubmitting resets it in the
\* end, whatever the outcome of the request; the page navigates to
\* /quiz-results only in the step in which the POST request resolves with
\* the results; and a failed attempt (request rejected, or no token) leaves
\* userAnswers as it was.
C19_SubmitAlwaysSettles ==
    /\ takeQuiz.isSubmitting ~> ~takeQuiz.isSubmitting
    /\ [][(takeQuiz'.navigatedTo = Some("/quiz-results")
              /\ takeQuiz.navigatedTo # Some("/quiz-results"))
            => (takeQuiz.submit = "sent" /\ takeQuiz.posted # Null
                   /\ takeQuiz'.submit = "idle")]_vars
    /\ [][(takeQuiz.submit # "idle" /\ takeQuiz'.submit = "idle"
              /\ takeQuiz'.navigatedTo # Some("/quiz-results"))
            => (takeQuiz'.userAnswers = takeQuiz.userAnswers
                   /\ ~takeQuiz'.isSubmitting)]_vars

\* A submit attempt has failed: the request was sent and rejected, the flag
\* is reset, and the page is still there with the participant's answers.
C19_Witness ==
    /\ takeQuiz.posted # Null
    /\ takeQuiz.submit = "idle"
    /\ ~takeQuiz.isSubmitting
    /\ takeQuiz.pc = "ready"
    /\ takeQuiz.userAnswers = takeQuiz.posted[1]
    /\ Len(takeQuiz.questions) = 2

\* C20: every execution of calculateResults sets isCalculating to false:
\* once the execution has ended, through the early return for a missing
\* navigation state or through the try block, the flag is false; and results
\* is non-null only after a fetch that succeeded.
C20_ExecutionEndsNotCalculating ==
    /\ pc \in {"returned", "done"} => isCalculating = FALSE
    /\ HasResults => (error = Null /\ pc \in {"finally", "done"})

(***************************************************************************)
(* submitQuestionnaire of ApiQuestionnaireController: the backend handler  *)
(* that stores a participant's attempt and the answers they chose.         *)
(***************************************************************************)

\* Most stored attempts the model lets the database hold, and most pairs in
\* the answers of one request.
MaxAttempts == 2
MaxPairs == 2

\* The database the handler reads: questionnaires 1 and 2 are active,
\* questionnaire 3 is not, and there is no questionnaire 4.  Question 1
\* belongs to questionnaire 1 and question 2 to questionnaire 2; answer 9
\* belongs to question 1 and answer 10 to question 2.  No question 3 and no
\* answer 11 exist.
IsActive == [q \in {1, 2, 3} |-> q # 3]
QuestionnaireOfQuestion == [q \in {1, 2} |-> q]
QuestionOfReponse == [a \in {9, 10} |-> a - 8]

\* The ids a request can carry; 0 stands for an id that is absent or falsy.
SubmitIds == 1..4
SubmittedQuestionIds == 0..3
SubmittedReponseIds == {0, 9, 10, 11}
SubmittedPairs == [questionId : SubmittedQuestionIds, answerId : SubmittedReponseIds]

\* The decoded body: Null when it does not decode to a non-empty array,
\* otherwise its three keys, each Null when absent or null.
SubmitBodies ==
    {Null} \cup
    { Some([participantFirstName |-> f, participantLastName |-> l, answers |-> a]) :
        f \in {Null, Some("Ana")}, l \in {Null, Some("Diaz")},
        a \in {Null} \cup { Some(s) : s \in SeqsUpTo(SubmittedPairs, MaxPairs) } }

InitSubmit ==
    /\ quizSubmission = [tentatives |-> <<>>, reponsesUtilisateur |-> <<>>,
                         handler |-> "none", id |-> 0, data |-> Null,
                         flushed |-> FALSE, status |-> 0]
    /\ quizInfo = Unused
    /\ userAnswers = Unused
    /\ pc = Unused
    /\ questions = Unused
    /\ index = Unused
    /\ correctAnswers = Unused
    /\ userAnswersDetails = Unused
    /\ results = Unused
    /\ isCalculating = Unused
    /\ navigatedTo = Unused
    /\ error = Unused
    /\ runs = Unused
    /\ runCorrectAnswers = Unused
    /\ runUserAnswersDetails = Unused
    /\ takeQuiz = Unused
    /\ authoring = Unused

submitFrame == <<quizInfo, userAnswers, pc, questions, index, correctAnswers,
                 userAnswersDetails, results, isCalculating, navigatedTo, error,
                 runs, runCorrectAnswers, runUserAnswersDetails, takeQuiz,
                 authoring>>

\* !$data || !isset(participantFirstName) || !isset(participantLastName)
\* || !isset(answers)
DataMissing(data) ==
    \/ data = Null
    \/ data[1].participantFirstName = Null
    \/ data[1].participantLastName = Null
    \/ data[1].answers = Null

\* The status of the early return, 0 when the handler goes on to the try.
SubmitRefusal(id, data) ==
    IF id \notin DOMAIN IsActive THEN HTTP_NOT_FOUND
    ELSE IF ~IsActive[id] THEN HTTP_FORBIDDEN
    ELSE IF DataMissing(data) THEN HTTP_BAD_REQUEST
    ELSE 0

\* The loop keeping a pair whatever questionnaire its question belongs to.
IsKept_AnyQuestionnaire(pair, id) ==
    /\ pair.questionId # 0
    /\ pair.answerId # 0
    /\ pair.questionId \in DOMAIN QuestionnaireOfQuestion
    /\ pair.answerId \in DOMAIN QuestionOfReponse

\* The pairs the loop does not `continue` over: both ids truthy, both
\* entities found, and the question of questionnaire id.
IsKept(pair, id) ==
    /\ pair.questionId # 0
    /\ pair.answerId # 0
    /\ pair.questionId \in DOMAIN QuestionnaireOfQuestion
    /\ pair.answerId \in DOMAIN QuestionOfReponse
    /\ QuestionnaireOfQuestion[pair.questionId] = id

\* One ReponseUtilisateur per kept pair, in the order of the request.
NewReponsesUtilisateur(answers, id, tentativeId) ==
    LET kept == SelectSeq(answers, LAMBDA pair : IsKept(pair, id))
    IN [i \in 1..Len(kept) |->
          [tentativeQuestionnaire |-> tentativeId,
           question |-> kept[i].questionId,
           reponse |-> kept[i].answerId]]

NewTentative(tentatives, id, data) ==
    [id |-> Len(tentatives) + 1, questionnaire |-> id,
     prenomParticipant |-> data[1].participantFirstName[1],
     nomParticipant |-> data[1].participantLastName[1]]

\* The handler creating and flushing the attempt before it looks at the body.
Persisted_BeforeBodyCheck(stored, id, data, refusal, flushed) ==
    IF refusal \in {HTTP_NOT_FOUND, HTTP_FORBIDDEN} \/ ~flushed THEN stored
    ELSE IF refusal = HTTP_BAD_REQUEST
         THEN [tentatives |-> Append(stored.tentatives,
                                [id |-> Len(stored.tentatives) + 1, questionnaire |-> id,
                                 prenomParticipant |-> "", nomParticipant |-> ""]),
               reponsesUtilisateur |-> stored.reponsesUtilisateur]
    ELSE [tentatives |-> Append(stored.tentatives,
                                NewTentative(stored.tentatives, id, data)),
          reponsesUtilisateur |->
              stored.reponsesUtilisateur \o
              NewReponsesUtilisateur(data[1].answers[1], id, Len(stored.tentatives) + 1)]

\* The two tables after the request: unchanged on an early return and when
\* the single flush fails, otherwise one more attempt and its records.
Persisted(stored, id, data, refusal, flushed) ==
    IF refusal # 0 \/ ~flushed THEN stored
    ELSE [tentatives |-> Append(stored.tentatives,
                                NewTentative(stored.tentatives, id, data)),
          reponsesUtilisateur |->
              stored.reponsesUtilisateur \o
              NewReponsesUtilisateur(data[1].answers[1], id, Len(stored.tentatives) + 1)]

SubmitStatus(refusal, flushed) ==
    IF refusal # 0 THEN refusal
    ELSE IF flushed THEN HTTP_OK
    ELSE HTTP_INTERNAL_SERVER_ERROR

\* POST /api/public/questionnaires/{id}/submit, from the route to the
\* response.  flushed records whether the handler reached flush() and the
\* flush succeeded.
SubmitQuestionnaire ==
    /\ quizSubmission.handler = "none"
    /\ Len(quizSubmission.tentatives) < MaxAttempts
    /\ \E id \in SubmitIds, data \in SubmitBodies, flushed \in BOOLEAN :
         LET refusal == SubmitRefusal(id, data)
             stored == [tentatives |-> quizSubmission.tentatives,
                        reponsesUtilisateur |-> quizSubmission.reponsesUtilisateur]
             after == Persisted(stored, id, data, refusal, flushed)
         IN quizSubmission' =
                [tentatives |-> after.tentatives,
                 reponsesUtilisateur |-> after.reponsesUtilisateur,
                 handler |-> "submitQuestionnaire", id |-> id, data |-> data,
                 flushed |-> (refusal = 0 /\ flushed),
                 status |-> SubmitStatus(refusal, flushed)]
    /\ UNCHANGED submitFrame

\* The response is sent and the request ends: the next request finds the
\* two tables as this one left them.
SubmitResponseSent ==
    /\ quizSubmission.handler # "none"
    /\ quizSubmission' = [quizSubmission EXCEPT !.handler = "none", !.id = 0,
                                                !.data = Null, !.flushed = FALSE,
                                                !.status = 0]
    /\ UNCHANGED submitFrame

NextSubmit ==
    \/ SubmitQuestionnaire
    \/ SubmitResponseSent

SpecSubmit == InitSubmit /\ [][NextSubmit]_vars

\* C21: when submitQuestionnaire answers 404, 403 or 400, the request has
\* created no TentativeQuestionnaire and no ReponseUtilisateur: both tables
\* are as they were before the request.
C21_RejectionPersistsNothing ==
    [][(quizSubmission.handler = "none"
        /\ quizSubmission'.status \in {HTTP_NOT_FOUND, HTTP_FORBIDDEN, HTTP_BAD_REQUEST})
       => /\ quizSubmission'.tentatives = quizSubmission.tentatives
          /\ quizSubmission'.reponsesUtilisateur = quizSubmission.reponsesUtilisateur]_vars

\* A request refused with 400 although it carries a pair the loop would keep,
\* sent to a questionnaire that already has a stored attempt with a record.
C21_Witness ==
    /\ quizSubmission.status = HTTP_BAD_REQUEST
    /\ Len(quizSubmission.tentatives) = 1
    /\ Len(quizSubmission.reponsesUtilisateur) = 1
    /\ quizSubmission.data # Null
    /\ quizSubmission.data[1].answers # Null
    /\ quizSubmission.data[1].participantFirstName = Null
    /\ \E i \in 1..Len(quizSubmission.data[1].answers[1]) :
          IsKept(quizSubmission.data[1].answers[1][i], quizSubmission.id)

\* The records the request of the current step has added.
NewRecords ==
    SubSeq(quizSubmission'.reponsesUtilisateur,
           Len(quizSubmission.reponsesUtilisateur) + 1,
           Len(quizSubmission'.reponsesUtilisateur))

\* C22: every ReponseUtilisateur a request submitQuestionnaire(id) adds has
\* an existing question of questionnaire id and an existing answer, and is
\* attached to the one attempt that same request created, itself an attempt
\* of questionnaire id; and a request that passed the three checks and whose
\* flush succeeded answers 200 whatever pairs it carried.
C22_RecordsOfOwnQuestionnaireAndAttempt ==
    [][(quizSubmission.handler = "none" /\ quizSubmission'.handler = "submitQuestionnaire")
       => /\ \A i \in 1..Len(NewRecords) :
                /\ NewRecords[i].question \in DOMAIN QuestionnaireOfQuestion
                /\ NewRecords[i].reponse \in DOMAIN QuestionOfReponse
                /\ QuestionnaireOfQuestion[NewRecords[i].question] = quizSubmission'.id
                /\ Len(quizSubmission'.tentatives) = Len(quizSubmission.tentatives) + 1
                /\ NewRecords[i].tentativeQuestionnaire = Len(quizSubmission'.tentatives)
                /\ quizSubmission'.tentatives[Len(quizSubmission'.tentatives)].id
                      = NewRecords[i].tentativeQuestionnaire
                /\ quizSubmission'.tentatives[Len(quizSubmission'.tentatives)].questionnaire
                      = quizSubmission'.id
          /\ quizSubmission'.flushed => quizSubmission'.status = HTTP_OK]_vars

\* A request answered 200 that carried a pair with a question of another
\* questionnaire and a pair the loop keeps, after an earlier attempt was
\* stored: the second attempt has exactly one record.
C22_Witness ==
    /\ quizSubmission.status = HTTP_OK
    /\ Len(quizSubmission.tentatives) = 2
    /\ LET answers == quizSubmission.data[1].answers[1]
       IN /\ Len(answers) = 2
          /\ answers[1].questionId \in DOMAIN QuestionnaireOfQuestion
          /\ answers[1].answerId \in DOMAIN QuestionOfReponse
          /\ QuestionnaireOfQuestion[answers[1].questionId] # quizSubmission.id
          /\ IsKept(answers[2], quizSubmission.id)
    /\ Len(SelectSeq(quizSubmission.reponsesUtilisateur,
                     LAMBDA r : r.tentativeQuestionnaire = 2)) = 1

\* C23: every stored ReponseUtilisateur pairs a question with one of that
\* question's own answers: the question of record.reponse is record.question.
C23_ReponseBelongsToQuestion ==
    \A i \in 1..Len(quizSubmission.reponsesUtilisateur) :
        QuestionOfReponse[quizSubmission.reponsesUtilisateur[i].reponse]
            = quizSubmission.reponsesUtilisateur[i].question
====
